---- MODULE Spec2Model ----
(***************************************************************************)
(* Binana: the rebalancing run of src/binana/async_main.py.                *)
(*                                                                         *)
(* Numbers.  The script computes with floats.  The model writes every      *)
(* dollar amount (a price, dollar_investment, a notional, minPrice,        *)
(* maxPrice, minNotional) in hundredths of a dollar (PRICE_SCALE units per *)
(* dollar), amount_invested and initial_balance in cents as the script     *)
(* does, a coin quantity in whole lots, and a USD balance in whole         *)
(* dollars.  A float differs from the decimal it stands for by a fraction  *)
(* of a unit in the last place; that matters in submit_buy_orders, where  *)
(* each case is decided as binary64 arithmetic decides it: the quotient    *)
(* dollar_investment / price when the exact quotient lies on the step grid *)
(* (QuotientBelow), the test notional < minNotional when the exact product *)
(* equals the limit (ProductBelow), and the notional against               *)
(* dollar_investment when the order takes the whole amount (ProductAbove). *)
(* The value recorded as a notional is the decimal product.                *)
(*                                                                         *)
(* A value an operator uses more than once is bound by a quantifier or a   *)
(* set constructor over a one-element set, so that it is computed once.    *)
(*                                                                         *)
(* Two collaborators are not in src/: portfolio_manager (the balancer      *)
(* behind Portfolio.invest_balanced) and binance.helpers.round_step_size.  *)
(* Both are modelled from spec.md (4.2 and 4.3).                           *)
(***************************************************************************)
EXTENDS Integers, Sequences, FiniteSets, Bags, TLC

(* ------------------------------ bounds -------------------------------- *)
\* SpecValidate: amount_invested ranges over 0..MaxAmount cents
MaxAmount == 35
\* SpecValidate: a price ranges over 1..MaxPrice hundredths of a dollar
MaxPrice == 5
\* SpecValidate: tickSize and stepSize range over 1..MaxStep
MaxStep == 3
\* Spec, SpecBalance: a coin balance ranges over 0..MaxHeld lots
MaxHeld == 1
\* SpecBalance: the USD total offered to the balancer ranges over 0..MaxCash dollars
MaxCash == 3

(* ------------------------- program constants -------------------------- *)
\* asset.amount_invested / 100, avg_prices[symbol] * total * 100
CENTS_PER_DOLLAR == 100
\* the model's fixed point: a dollar amount is written in hundredths
PRICE_SCALE == CENTS_PER_DOLLAR
\* get_cash_investment_amount keeps usd_balance - 10
CASH_RESERVE == 10
\* investment_amount = 200
DEFAULT_INVESTMENT == 200

USD_SYMBOL == "USD"
\* SYMBOLS = ALLOCATION.get_list_of_symbols(): the nine assets, as declared
SYMBOLS == <<"ETH", "BTC", "ADA", "SOL", "LINK", "MATIC", "UNI", "DOT", "BNB">>
SymbolSet == {SYMBOLS[i] : i \in 1..Len(SYMBOLS)}
\* get_predicted_prices asks for SYMBOLS + [USD_SYMBOL]
PriceSymbols == SymbolSet \cup {USD_SYMBOL}
\* ALLOCATION: the declared weights, in hundredths (0.23, 0.18, ..., 0)
ALLOCATION ==
  ("ETH" :> 23) @@ ("BTC" :> 18) @@ ("ADA" :> 14) @@ ("SOL" :> 5) @@ ("LINK" :> 13)
  @@ ("MATIC" :> 13) @@ ("UNI" :> 9) @@ ("DOT" :> 5) @@ ("BNB" :> 0)

(* ------------------------------ helpers ------------------------------- *)
Min(a, b) == IF a < b THEN a ELSE b
Max(a, b) == IF a > b THEN a ELSE b

\* sum(f[x] for x in S): the positive terms less the negative ones, each
\* counted as the size of the bag holding x f[x] times
SumOver(f, S) ==
  BagCardinality([x \in {y \in S : f[y] > 0} |-> f[x]])
    - BagCardinality([x \in {y \in S : f[y] < 0} |-> 0 - f[x]])

\* sum(s)
SumSeq(s) == SumOver(s, 1..Len(s))

\* [x for x in seq[:n] if Keep(x)]
RECURSIVE SelectPrefix(_, _, _)
SelectPrefix(s, keep, n) ==
  IF n = 0 THEN <<>>
  ELSE IF keep[n] THEN Append(SelectPrefix(s, keep, n - 1), s[n])
       ELSE SelectPrefix(s, keep, n - 1)
\* [x for x in seq if Keep(x)]
SelectSeqIdx(s, keep) == SelectPrefix(s, keep, Cardinality(DOMAIN s))

VARIABLES
  pc,                \* where main() is
  error,             \* what ended the run early ("" while it has not)
  allocation,        \* ALLOCATION's weights
  is_testing,        \* global is_testing
  investment_amount, \* global investment_amount (dollars)
  fetch,             \* per kind of pre-flight request: how many are pending, done, failed
  account_balances,  \* results[0] of the pre-flight gather
  predicted_prices,  \* results[1]
  all_symbol_info,   \* results[2]
  assets,            \* portfolio.get_assets(account_details)
  tasks,             \* submit_buy_orders: the order() coroutines, in queue order
  remote,            \* per task, its remote call: "created", "pending", "returned", "raised"
  task_result,       \* per task, what order() returned (NoResult until it has)
  calls,             \* the order calls made on the client, in the order made
  rejections,        \* the "Could not submit" lines printed, in order
  results,           \* results of the orders' gather, as printed
  cash_spent,        \* the "Cash spent" printed (hundredths of a dollar)
  completed          \* the tasks whose order() has returned, in the order they did

vars == <<pc, error, allocation, is_testing, investment_amount, fetch, account_balances,
          predicted_prices, all_symbol_info, assets, tasks, remote, task_result, calls,
          rejections, results, cash_spent, completed>>

(* ------------------------- the exchange's answers --------------------- *)
\* The USD (free, locked) pairs of the run: totals 5, 10, 25 and 45 dollars
UsdBalances == {<<5, 0>>, <<5, 5>>, <<20, 5>>, <<40, 5>>}

\* client.get_account()['balances'], in the exchange's order: ETH and DOGE (a
\* coin outside the allocation) are held or not, BTC is listed and not held
AccountAnswers ==
  { <<[asset |-> USD_SYMBOL, free |-> u[1], locked |-> u[2]],
      [asset |-> "ETH", free |-> e, locked |-> 0],
      [asset |-> "BTC", free |-> 0, locked |-> 0],
      [asset |-> "DOGE", free |-> d, locked |-> 0]>> :
      u \in UsdBalances, e \in 0..MaxHeld, d \in {0, 1} }

\* the markets whose answers vary in the run; the other six always answer alike
VariedSymbols == {"ETH", "BTC", "ADA"}

\* Predicted prices of the run, in hundredths of a dollar per lot
MainPrices == {100, 250}
\* get_predicted_prices(): a price per symbol of SYMBOLS + [USD_SYMBOL]; a
\* dollar is worth 1.0, and so is a lot of each of the six
PriceAnswers ==
  { [s \in PriceSymbols |-> IF s \in VariedSymbols THEN f[s] ELSE PRICE_SCALE] :
      f \in [VariedSymbols -> MainPrices] }

\* Two answers of get_symbol_info: every order passes the first; the second has
\* a ten-dollar minNotional and coarser grids
LenientRule == [tickSize |-> 1, minPrice |-> 1, maxPrice |-> 100000,
                stepSize |-> 1, minQty |-> 1, maxQty |-> 9000, minNotional |-> 100]
StrictRule == [tickSize |-> 50, minPrice |-> 1, maxPrice |-> 100000,
               stepSize |-> 2, minQty |-> 2, maxQty |-> 9000, minNotional |-> 1000]
MainRules == {LenientRule, StrictRule}
\* the answer of the six: a thousand-dollar minNotional, above every budget
ClosedRule == [tickSize |-> 1, minPrice |-> 1, maxPrice |-> 100000,
               stepSize |-> 1, minQty |-> 1, maxQty |-> 9000, minNotional |-> 100000]
\* get_all_symbol_info(): the filters of every symbol of SYMBOLS
InfoAnswers ==
  { [s \in SymbolSet |-> IF s \in VariedSymbols THEN f[s] ELSE ClosedRule] :
      f \in [VariedSymbols -> MainRules] }
NoRule == [tickSize |-> 1, minPrice |-> 0, maxPrice |-> 0,
           stepSize |-> 1, minQty |-> 0, maxQty |-> 0, minNotional |-> 0]

\* What the user may type at a y/n prompt, and at the investment prompt (digits)
Answers == {"y", "Y", "n", ""}
UserInputs == {<<>>, <<0>>, <<2, 0>>}

(* --------------------------- pure functions --------------------------- *)
\* float(user_input) of a string of decimal digits; float('') raises ValueError
RECURSIVE ParseFloat(_)
ParseFloat(digits) ==
  IF digits = <<>> THEN 0
  ELSE 10 * ParseFloat(SubSeq(digits, 1, Len(digits) - 1)) + digits[Len(digits)]
ParseRaises(digits) == digits = <<>>

\* mutant: the second prompt is lost, any first answer but 'y' goes live
get_test_intentions_from_user_OnePrompt(a1, a2) == a1 = "y"

\* is_testing after the two prompts
get_test_intentions_from_user(a1, a2) == IF a1 = "y" THEN TRUE ELSE a2 # "y"

\* mutant: the ten-dollar reserve is lost
get_cash_investment_amount_NoReserve(inv, usd_balance) == Min(inv, usd_balance)

\* min(investment_amount, usd_balance - 10)
get_cash_investment_amount(inv, usd_balance) == Min(inv, usd_balance - CASH_RESERVE)

\* total of one balance of the account
BalanceTotal(inv, b) ==
  IF b.asset = USD_SYMBOL THEN get_cash_investment_amount(inv, b.free + b.locked)
  ELSE b.free + b.locked

\* get_account_balances: the balances with a total > 0, each with its total
get_account_balances(inv, answer) ==
  SelectSeqIdx([i \in 1..Len(answer) |->
                  [asset |-> answer[i].asset, total |-> BalanceTotal(inv, answer[i])]],
               [i \in 1..Len(answer) |-> BalanceTotal(inv, answer[i]) > 0])

\* mutant: the "* 100 #cents" is lost, the value is left in dollars
AssetValue_Dollars(price, total) == (price * total) \div PRICE_SCALE

\* avg_prices[symbol] * total * 100 (cents); the price is in hundredths of a dollar
AssetValue(price, total) == (price * total * CENTS_PER_DOLLAR) \div PRICE_SCALE

\* avg_prices[symbol] raises KeyError for a balance whose symbol has no price
PortfolioKeyError(balances, prices) ==
  \E i \in 1..Len(balances) : balances[i].asset \notin DOMAIN prices

\* get_portfolio_assets: one Asset per balance
get_portfolio_assets(balances, prices) ==
  [i \in 1..Len(balances) |->
     [symbol |-> balances[i].asset,
      quantity |-> balances[i].total,
      initial_balance |-> AssetValue(prices[balances[i].asset], balances[i].total),
      amount_invested |-> 0]]

(* --------------- the balancer (spec.md 4.2; not in src/) -------------- *)
\* current value of a symbol: the initial_balance of its position, 0 when not held
CurrentValue(positions, s) ==
  SumSeq([i \in 1..Len(positions) |->
            IF positions[i].symbol = s THEN positions[i].initial_balance ELSE 0])

\* investableCash: the value of the USD position
InvestableCash(positions) == CurrentValue(positions, USD_SYMBOL)

WeightTotal(alloc) == SumOver(alloc, DOMAIN alloc)

\* totalValue = sum of the current values + investableCash
TotalValue(positions) ==
  SumSeq([i \in 1..Len(positions) |-> positions[i].initial_balance])

\* what the balancer reads off the portfolio and the allocation, each once
Totals(alloc, positions) ==
  [cash |-> InvestableCash(positions), weights |-> WeightTotal(alloc),
   value |-> TotalValue(positions)]

\* mutant: the deficit is not clamped at 0
Deficit_Signed(alloc, positions, totals, s) ==
  alloc[s] * totals.value - totals.weights * CurrentValue(positions, s)

\* deficit = max(0, weight * totalValue - currentValue), times WeightTotal
Deficit(alloc, positions, totals, s) ==
  Max(0, alloc[s] * totals.value - totals.weights * CurrentValue(positions, s))

SumDeficits(alloc, positions, totals) ==
  SumOver([s \in DOMAIN alloc |-> Deficit(alloc, positions, totals, s)], DOMAIN alloc)

\* amountToInvest = investableCash * deficit / sum(deficits), in whole cents
AmountToInvest(totals, deficit, sum_deficits) ==
  IF totals.cash <= 0 \/ sum_deficits = 0 THEN 0
  ELSE (totals.cash * deficit) \div sum_deficits

\* portfolio.invest_balanced, then portfolio.get_assets: one position per
\* symbol of the allocation, in the order of SYMBOLS; the totals and the sum
\* of the deficits are computed once and shared by the nine
invest_balanced(alloc, positions) ==
  CHOOSE assets_ \in
    UNION { { [i \in 1..Len(SYMBOLS) |->
                [symbol |-> SYMBOLS[i],
                 quantity |-> SumSeq([j \in 1..Len(positions) |->
                                IF positions[j].symbol = SYMBOLS[i]
                                THEN positions[j].quantity ELSE 0]),
                 initial_balance |-> CurrentValue(positions, SYMBOLS[i]),
                 amount_invested |->
                   AmountToInvest(totals, Deficit(alloc, positions, totals, SYMBOLS[i]),
                                  sum_deficits)]] :
              sum_deficits \in {SumDeficits(alloc, positions, totals)} } :
            totals \in {Totals(alloc, positions)} } : TRUE

(* --------------------- binary64 floats (Python float) ------------------ *)
\* a float has a 53-bit significand: 52 bits after the leading one
MANTISSA_BITS == 52

Pow2(k) == 2 ^ k
\* 2^k modulo m, for k < 124 and m * m < 2^31
Pow2Mod(k, m) ==
  LET quarter == (2 ^ (k \div 4)) % m
      half == (quarter * quarter) % m
  IN (((half * half) % m) * (2 ^ (k % 4))) % m
\* the binary exponent E of n / d > 0: 2^E <= n / d < 2^(E + 1)
BinaryExponent(n, d) ==
  IF n >= d THEN CHOOSE e \in 0..30 : d * (2 ^ e) <= n /\ n < 2 * d * (2 ^ e)
  ELSE 0 - (CHOOSE e \in 1..30 : n * (2 ^ e) >= d /\ n * (2 ^ (e - 1)) < d)

\* n / d is a power of two
IsPow2(n, d) ==
  IF n >= d THEN n = d * Pow2(BinaryExponent(n, d))
  ELSE n * Pow2(0 - BinaryExponent(n, d)) = d

\* The float n / d (n, d small positive integers) is M * 2^(-shift) with M
\* the integer nearest to n * 2^shift / d (ties to even); it equals
\* n / d + err / (d * 2^shift) exactly, and odd tells whether M is odd.
Float(n, d) ==
  LET shift == MANTISSA_BITS - BinaryExponent(n, d)
      \* n * 2^shift modulo 2d: the remainder, and the last bit of the truncated M
      rem2 == (n * Pow2Mod(shift, 2 * d)) % (2 * d)
      rem == rem2 % d
      up == 2 * rem > d \/ (2 * rem = d /\ rem2 >= d)
  IN [shift |-> shift, err |-> (IF up THEN d ELSE 0) - rem, odd |-> (rem2 >= d) # up]

\* (a / 100) / (p / 100) computed in floats is less than the integer a / p
\* (p divides a): x / y rounds below K exactly when x < y * (K - h), h half
\* the gap between K and the float before it
QuotientBelow(a, p) ==
  \E x \in {Float(a, CENTS_PER_DOLLAR)}, y \in {Float(p, PRICE_SCALE)} :
    LET K == a \div p
        t == (MANTISSA_BITS + 1) - BinaryExponent(K, 1) + (IF IsPow2(K, 1) THEN 1 ELSE 0)
        e == y.shift + t - x.shift
        m == Min(e, Min(t, y.shift))
        S == x.err * Pow2(e - m) - y.err * K * Pow2(t - m) + p * Pow2(y.shift - m)
    IN S < 0 \/ (S = 0 /\ y.err < 0)

\* (pr / 100) * K computed in floats is less than the float limit / 100, where
\* pr * K = limit: the product rounds below the limit's float n exactly when
\* it is below n - h (or equal to it, when n's significand is odd)
ProductBelow(pr, K, limit) ==
  \E x \in {Float(pr, PRICE_SCALE)}, n \in {Float(limit, PRICE_SCALE)} :
    LET pow2 == IsPow2(limit, PRICE_SCALE)
        u == n.shift + (IF pow2 THEN 2 ELSE 1)
        R == (IF pow2 THEN 4 ELSE 2) * n.err - PRICE_SCALE
        m == Max(x.shift, u)
        L == K * x.err * Pow2(m - x.shift)
    IN IF n.odd THEN L <= R * Pow2(m - u) ELSE L < R * Pow2(m - u)

\* (pr / 100) * K computed in floats is greater than the float limit / 100,
\* where pr * K = limit: the product rounds above the limit's float n exactly
\* when it is above n + h, h half the gap between n and the float after it
\* (or equal to it, when n's significand is odd)
ProductAbove(pr, K, limit) ==
  \E x \in {Float(pr, PRICE_SCALE)}, n \in {Float(limit, PRICE_SCALE)} :
    LET u == n.shift + 1
        R == 2 * n.err + PRICE_SCALE
        m == Max(x.shift, u)
        L == K * x.err * Pow2(m - x.shift)
    IN IF n.odd THEN L >= R * Pow2(m - u) ELSE L > R * Pow2(m - u)

\* dollar_investment / avg_prices[symbol] as round_step_size sees it: the
\* exact quotient num / den, or, when the float falls below an integer
\* quotient, a value just below it (the gap itself is never observed)
FloatQuotient(num, den) ==
  IF num > 0 /\ num % den = 0 /\ QuotientBelow(num, den)
  THEN <<2 * num - 1, 2 * den>>
  ELSE <<num, den>>

\* notional < minNotional, where notional = price * quantity is a float
NotionalBelow(price, quantity, minNotional) ==
  \/ price * quantity < minNotional
  \/ /\ price * quantity = minNotional
     /\ minNotional > 0
     /\ ProductBelow(price, quantity, minNotional)

\* notional > dollar_investment, both floats
NotionalAbove(price, quantity, dollar_investment) ==
  \/ price * quantity > dollar_investment
  \/ /\ price * quantity = dollar_investment
     /\ dollar_investment > 0
     /\ ProductAbove(price, quantity, dollar_investment)

(* ------------------ submit_buy_orders: one candidate ------------------ *)
\* mutant: the nearest multiple of step_size (half up) instead of the one below
round_step_size_Nearest(num, den, step_size) ==
  ((2 * num + den * step_size) \div (2 * den * step_size)) * step_size

\* binance.helpers.round_step_size(num / den, step_size): the largest multiple
\* of step_size that is <= num / den (not in src/; spec.md 4.3 round_down)
round_step_size(num, den, step_size) ==
  (num \div den) - ((num \div den) % step_size)

\* dollar_investment = asset.amount_invested / 100, in hundredths of a dollar
DollarInvestment(amount_invested) == (amount_invested * PRICE_SCALE) \div CENTS_PER_DOLLAR

\* quantity = round_step_size(dollar_investment / avg_prices[symbol], stepSize)
OrderQuantity(amount_invested, avg_price, info) ==
  CHOOSE quantity \in
    {round_step_size(q[1], q[2], info.stepSize) :
       q \in {FloatQuotient(DollarInvestment(amount_invested), avg_price)}} : TRUE

\* price = round_step_size(avg_prices[symbol], tickSize)
OrderPrice(avg_price, info) == round_step_size(avg_price, 1, info.tickSize)

\* mutant: the notional test is moved to the head of the chain
FailureReason_NotionalFirst(price, quantity, notional, info) ==
  IF NotionalBelow(price, quantity, info.minNotional) THEN "minNotional"
  ELSE IF price < info.minPrice THEN "minPrice"
  ELSE IF price > info.maxPrice THEN "maxPrice"
  ELSE IF quantity < info.minQty THEN "minQty"
  ELSE IF quantity > info.maxQty THEN "maxQty"
  ELSE ""

\* the if/elif chain: "" is None
FailureReason(price, quantity, notional, info) ==
  IF price < info.minPrice THEN "minPrice"
  ELSE IF price > info.maxPrice THEN "maxPrice"
  ELSE IF quantity < info.minQty THEN "minQty"
  ELSE IF quantity > info.maxQty THEN "maxQty"
  ELSE IF NotionalBelow(price, quantity, info.minNotional) THEN "minNotional"
  ELSE ""

\* mutant: only a negative amount is skipped (< for <=)
Skipped_NegativeOnly(asset) == asset.amount_invested < 0

\* if asset.amount_invested <= 0: continue
Skipped(asset) == asset.amount_invested <= 0

\* the candidate of one asset: rounded quantity and price, notional, failureReason
Candidate(asset, prices, infos) ==
  CHOOSE candidate \in
    {[symbol |-> asset.symbol, quantity |-> q, price |-> p, notional |-> p * q,
      reason |-> FailureReason(p, q, p * q, infos[asset.symbol])] :
       q \in {OrderQuantity(asset.amount_invested, prices[asset.symbol],
                            infos[asset.symbol])},
       p \in {OrderPrice(prices[asset.symbol], infos[asset.symbol])}} : TRUE

\* if (failureReason): print, continue; else tasks.append(order(...))
Queued(asset, prices, infos) ==
  ~Skipped(asset) /\ Candidate(asset, prices, infos).reason = ""

Rejected(asset, prices, infos) ==
  ~Skipped(asset) /\ Candidate(asset, prices, infos).reason # ""

\* mutant: the loop stops at the first rejection (break for continue)
QueuedOrders_Break(as, prices, infos) ==
  SelectSeqIdx([i \in 1..Len(as) |->
                  IF Skipped(as[i]) THEN [symbol |-> as[i].symbol, quantity |-> 0, price |-> 0]
                  ELSE [symbol |-> as[i].symbol,
                        quantity |-> Candidate(as[i], prices, infos).quantity,
                        price |-> Candidate(as[i], prices, infos).price]],
               [i \in 1..Len(as) |->
                  /\ Queued(as[i], prices, infos)
                  /\ \A j \in 1..(i - 1) : ~Rejected(as[j], prices, infos)])

\* tasks after the loop: the queued candidates, in the order of assets
QueuedOrders(as, prices, infos) ==
  SelectSeqIdx([i \in 1..Len(as) |->
                  IF Skipped(as[i]) THEN [symbol |-> as[i].symbol, quantity |-> 0, price |-> 0]
                  ELSE [symbol |-> as[i].symbol,
                        quantity |-> Candidate(as[i], prices, infos).quantity,
                        price |-> Candidate(as[i], prices, infos).price]],
               [i \in 1..Len(as) |-> Queued(as[i], prices, infos)])

\* mutant: the "Could not submit" print is lost
RejectionLines_Silent(as, prices, infos) == <<>>

\* the "Could not submit" lines printed by the loop, in the order of assets
RejectionLines(as, prices, infos) ==
  SelectSeqIdx([i \in 1..Len(as) |->
                  IF Skipped(as[i]) THEN [symbol |-> as[i].symbol, reason |-> ""]
                  ELSE [symbol |-> as[i].symbol,
                        reason |-> Candidate(as[i], prices, infos).reason]],
               [i \in 1..Len(as) |-> Rejected(as[i], prices, infos)])

(* ------------------------------ order() ------------------------------- *)
\* mutant: the test of is_testing is inverted
OrderFunction_Inverted(testing) == IF testing THEN "create_order" ELSE "create_test_order"

\* order_function = client.create_test_order; if not is_testing: client.create_order
OrderFunction(testing) == IF testing THEN "create_test_order" ELSE "create_order"

NoResult == [symbol |-> "", quantity |-> 0, price |-> 0, notional |-> 0, result |-> "NONE"]

\* the dict order() returns: SUCCESS when the call returned, FAILURE when it
\* raised an Exception
OrderResult(task, raised) ==
  [symbol |-> task.symbol, quantity |-> task.quantity, price |-> task.price,
   notional |-> task.price * task.quantity,
   result |-> IF raised THEN "FAILURE" ELSE "SUCCESS"]

\* mutant: the filter on SUCCESS is lost
CashSpent_All(rs) == SumSeq([i \in 1..Len(rs) |-> rs[i].notional])

\* sum([result['notional'] for result in results if result['result'] == 'SUCCESS'])
CashSpent(rs) ==
  SumSeq([i \in 1..Len(rs) |->
            IF rs[i].result = "SUCCESS" THEN rs[i].notional ELSE 0])

(* ------------------------------ the run ------------------------------- *)
\* the pre-flight requests under main's gather, by kind: the account, the
\* prices, the trading rules
FetchKinds == {"balances", "price", "info"}

\* the requests of a kind: one for the account, a price per symbol (USD's is
\* 1.0 without a request), the trading rules per symbol
Requests(kind) == IF kind = "balances" THEN 1 ELSE Len(SYMBOLS)

\* A gather keeps its children's results by position, whatever the order they
\* complete in, and nothing in the program looks at which request was answered
\* before which: the state of a kind's requests is how many of them are
\* unanswered, answered, and have raised
NoRequests == [k \in FetchKinds |-> [pending |-> 0, done |-> 0, failed |-> 0]]
AllPending == [k \in FetchKinds |-> [pending |-> Requests(k), done |-> 0, failed |-> 0]]
AllDone == [k \in FetchKinds |-> [pending |-> 0, done |-> Requests(k), failed |-> 0]]

\* one pending request of a kind gets its outcome ("done" or "failed")
Settle(f, kind, outcome) ==
  [f EXCEPT ![kind] = [@ EXCEPT !.pending = @ - 1, ![outcome] = @ + 1]]

\* mutant: the gather collects exceptions instead of raising (return_exceptions=True)
GatherRaises_Never(f) == FALSE

\* asyncio.gather without return_exceptions raises the first failure to main
GatherRaises(f) == \E k \in DOMAIN f : f[k].failed > 0

\* main's locals before the gather has returned them
NoPrices == [s \in PriceSymbols |-> 0]
NoInfos == [s \in SymbolSet |-> NoRule]

Init ==
  /\ pc = "start"
  /\ error = ""
  /\ allocation = ALLOCATION
  /\ is_testing = TRUE
  /\ investment_amount = DEFAULT_INVESTMENT
  /\ fetch = NoRequests
  /\ account_balances = <<>>
  /\ predicted_prices = NoPrices
  /\ all_symbol_info = NoInfos
  /\ assets = <<>>
  /\ tasks = <<>>
  /\ remote = <<>>
  /\ task_result = <<>>
  /\ calls = <<>>
  /\ rejections = <<>>
  /\ results = <<>>
  /\ cash_spent = 0
  /\ completed = <<>>

\* get_test_intentions_from_user()
GetTestIntentions ==
  /\ pc = "start"
  /\ \E a1 \in Answers, a2 \in Answers :
       is_testing' = get_test_intentions_from_user(a1, a2)
  /\ pc' = "configure"
  /\ UNCHANGED <<completed, error, allocation, investment_amount, fetch, account_balances,
                 predicted_prices, all_symbol_info, assets, tasks, remote, task_result,
                 calls, rejections, results, cash_spent>>

\* await configure_client()
ConfigureClient ==
  /\ pc = "configure"
  /\ pc' = "amount"
  /\ UNCHANGED <<completed, error, allocation, is_testing, investment_amount, fetch,
                 account_balances, predicted_prices, all_symbol_info, assets, tasks,
                 remote, task_result, calls, rejections, results, cash_spent>>

\* AsyncClient.create raises
ConfigureClientFails ==
  /\ pc = "configure"
  /\ pc' = "aborted"
  /\ error' = "configure_client"
  /\ UNCHANGED <<completed, allocation, is_testing, investment_amount, fetch,
                 account_balances, predicted_prices, all_symbol_info, assets, tasks,
                 remote, task_result, calls, rejections, results, cash_spent>>

\* await get_investment_amount_from_user(), then main creates the pre-flight gather
GetInvestmentAmount ==
  /\ pc = "amount"
  /\ \E user_input \in UserInputs :
       /\ ~ParseRaises(user_input)
       /\ investment_amount' = ParseFloat(user_input)
  /\ fetch' = AllPending
  /\ pc' = "fetching"
  /\ UNCHANGED <<completed, error, allocation, is_testing, account_balances,
                 predicted_prices, all_symbol_info, assets, tasks, remote, task_result,
                 calls, rejections, results, cash_spent>>

\* float(user_input) raises ValueError, or client.get_asset_balance raises
GetInvestmentAmountFails ==
  /\ pc = "amount"
  /\ \/ /\ \E user_input \in UserInputs : ParseRaises(user_input)
        /\ error' = "ValueError"
     \/ error' = "get_asset_balance"
  /\ pc' = "aborted"
  /\ UNCHANGED <<completed, allocation, is_testing, investment_amount, fetch, account_balances,
                 predicted_prices, all_symbol_info, assets, tasks, remote, task_result,
                 calls, rejections, results, cash_spent>>

\* get_account_balances() returns
FetchBalances ==
  /\ pc = "fetching"
  /\ fetch["balances"].pending > 0
  /\ \E answer \in AccountAnswers :
       account_balances' = get_account_balances(investment_amount, answer)
  /\ fetch' = Settle(fetch, "balances", "done")
  /\ UNCHANGED <<completed, pc, error, allocation, is_testing, investment_amount, predicted_prices,
                 all_symbol_info, assets, tasks, remote, task_result, calls, rejections,
                 results, cash_spent>>

\* PRICE_PREDICTOR.get(s + 'USD') returns for one of the symbols still
\* unanswered, whichever: its get_predicted_price(s) returns its pair
FetchPrice ==
  /\ pc = "fetching"
  /\ fetch["price"].pending > 0
  /\ fetch' = Settle(fetch, "price", "done")
  /\ UNCHANGED <<completed, pc, error, allocation, is_testing, investment_amount, account_balances,
                 predicted_prices, all_symbol_info, assets, tasks, remote, task_result,
                 calls, rejections, results, cash_spent>>

\* get_predicted_prices() has returned its dict
PricesReturned == predicted_prices # NoPrices

\* get_predicted_prices() resumes when its gather has every pair, and returns
\* them as one dict
GetPredictedPrices ==
  /\ pc = "fetching"
  /\ fetch["price"].done = Requests("price")
  /\ ~PricesReturned
  /\ \E prices \in PriceAnswers : predicted_prices' = prices
  /\ UNCHANGED <<completed, pc, error, allocation, is_testing, investment_amount, fetch,
                 account_balances, all_symbol_info, assets, tasks, remote, task_result,
                 calls, rejections, results, cash_spent>>

\* client.get_symbol_info(s + 'USD') returns for one of the symbols still
\* unanswered, whichever
FetchInfo ==
  /\ pc = "fetching"
  /\ fetch["info"].pending > 0
  /\ fetch' = Settle(fetch, "info", "done")
  /\ UNCHANGED <<completed, pc, error, allocation, is_testing, investment_amount, account_balances,
                 predicted_prices, all_symbol_info, assets, tasks, remote, task_result,
                 calls, rejections, results, cash_spent>>

\* get_all_symbol_info() has returned its dict
InfosReturned == all_symbol_info # NoInfos

\* get_all_symbol_info() resumes when its gather has every answer, and returns
\* the filters as result[baseAsset]
GetAllSymbolInfo ==
  /\ pc = "fetching"
  /\ fetch["info"].done = Requests("info")
  /\ ~InfosReturned
  /\ \E infos \in InfoAnswers : all_symbol_info' = infos
  /\ UNCHANGED <<completed, pc, error, allocation, is_testing, investment_amount, fetch,
                 account_balances, predicted_prices, assets, tasks, remote, task_result,
                 calls, rejections, results, cash_spent>>

\* a pre-flight request of a kind raises, whichever is pending and however
\* many have raised before it; main is still suspended at its gather and other
\* answers go on arriving
FetchFails(kind) ==
  /\ pc = "fetching"
  /\ fetch[kind].pending > 0
  /\ fetch' = Settle(fetch, kind, "failed")
  /\ UNCHANGED <<completed, pc, error, allocation, is_testing, investment_amount,
                 account_balances, predicted_prices, all_symbol_info, assets, tasks,
                 remote, task_result, calls, rejections, results, cash_spent>>

\* main's gather raises the failure of a request to main, which has no
\* handler: main ends with it
PreflightRaises ==
  /\ pc = "fetching"
  /\ GatherRaises(fetch)
  /\ pc' = "aborted"
  /\ error' = "fetch"
  /\ UNCHANGED <<completed, allocation, is_testing, investment_amount, fetch,
                 account_balances, predicted_prices, all_symbol_info, assets, tasks,
                 remote, task_result, calls, rejections, results, cash_spent>>

\* main's gather has its three results
FetchFinished ==
  /\ fetch["balances"].done = Requests("balances")
  /\ PricesReturned
  /\ InfosReturned

\* main after the gather: get_portfolio_assets, Portfolio, invest_balanced, get_assets
BuildPortfolio ==
  /\ pc = "fetching"
  /\ FetchFinished
  /\ ~GatherRaises(fetch)
  /\ ~PortfolioKeyError(account_balances, predicted_prices)
  /\ assets' = invest_balanced(allocation,
                               get_portfolio_assets(account_balances, predicted_prices))
  /\ pc' = "submit"
  /\ UNCHANGED <<completed, error, allocation, is_testing, investment_amount, fetch,
                 account_balances, predicted_prices, all_symbol_info, tasks, remote,
                 task_result, calls, rejections, results, cash_spent>>

\* get_portfolio_assets raises KeyError: a held symbol has no price
BuildPortfolioFails ==
  /\ pc = "fetching"
  /\ FetchFinished
  /\ ~GatherRaises(fetch)
  /\ PortfolioKeyError(account_balances, predicted_prices)
  /\ pc' = "aborted"
  /\ error' = "KeyError"
  /\ UNCHANGED <<completed, allocation, is_testing, investment_amount, fetch,
                 account_balances, predicted_prices, all_symbol_info, assets, tasks,
                 remote, task_result, calls, rejections, results, cash_spent>>

\* submit_buy_orders up to its gather: the loop over assets, then a task per order
SubmitBuyOrders ==
  /\ pc = "submit"
  /\ tasks' = QueuedOrders(assets, predicted_prices, all_symbol_info)
  /\ rejections' = rejections \o RejectionLines(assets, predicted_prices, all_symbol_info)
  /\ remote' = [i \in 1..Len(tasks') |-> "created"]
  /\ task_result' = [i \in 1..Len(tasks') |-> NoResult]
  /\ pc' = "ordering"
  /\ UNCHANGED <<completed, error, allocation, is_testing, investment_amount, fetch,
                 account_balances, predicted_prices, all_symbol_info, assets, calls,
                 results, cash_spent>>

\* order() runs up to its await: the call is made with the function is_testing selects
OrderStart(i) ==
  /\ pc = "ordering"
  /\ remote[i] = "created"
  /\ \A j \in 1..(i - 1) : remote[j] # "created"
  /\ calls' = Append(calls, [function |-> OrderFunction(is_testing),
                             symbol |-> tasks[i].symbol,
                             quantity |-> tasks[i].quantity,
                             price |-> tasks[i].price])
  /\ remote' = [remote EXCEPT ![i] = "pending"]
  /\ UNCHANGED <<completed, pc, error, allocation, is_testing, investment_amount, fetch,
                 account_balances, predicted_prices, all_symbol_info, assets, tasks,
                 task_result, rejections, results, cash_spent>>

\* the call returns a response: order() returns its SUCCESS dict
OrderReturns(i) ==
  /\ pc = "ordering"
  /\ remote[i] = "pending"
  /\ remote' = [remote EXCEPT ![i] = "returned"]
  /\ task_result' = [task_result EXCEPT ![i] = OrderResult(tasks[i], FALSE)]
  /\ completed' = Append(completed, i)
  /\ UNCHANGED <<pc, error, allocation, is_testing, investment_amount, fetch,
                 account_balances, predicted_prices, all_symbol_info, assets, tasks,
                 calls, rejections, results, cash_spent>>

\* the call raises an Exception: order() catches it and returns its FAILURE dict
OrderRaises(i) ==
  /\ pc = "ordering"
  /\ remote[i] = "pending"
  /\ remote' = [remote EXCEPT ![i] = "raised"]
  /\ task_result' = [task_result EXCEPT ![i] = OrderResult(tasks[i], TRUE)]
  /\ completed' = Append(completed, i)
  /\ UNCHANGED <<pc, error, allocation, is_testing, investment_amount, fetch,
                 account_balances, predicted_prices, all_symbol_info, assets, tasks,
                 calls, rejections, results, cash_spent>>

\* the exceptions that are no subclass of Exception
BaseExceptions == {"CancelledError", "SystemExit", "KeyboardInterrupt"}

\* the call raises an exception that `except Exception` does not catch: it
\* leaves order(), which returns no dict
OrderEscapes(i) ==
  /\ pc = "ordering"
  /\ remote[i] = "pending"
  /\ remote' = [remote EXCEPT ![i] = "raised"]
  /\ UNCHANGED <<completed, pc, error, allocation, is_testing, investment_amount, fetch,
                 account_balances, predicted_prices, all_symbol_info, assets, tasks,
                 task_result, calls, rejections, results, cash_spent>>

\* order() was left by an exception
Escaped(i) == remote[i] = "raised" /\ task_result[i] = NoResult

\* order() returned its dict
OrderDone(i) == remote[i] \in {"returned", "raised"} /\ task_result[i] # NoResult

\* the gather of the orders raises the escaped exception: the `except Exception`
\* of submit_buy_orders does not catch it either, and main, without a handler,
\* ends with it before any report and without closing the connection
SubmitBuyOrdersRaises ==
  /\ pc = "ordering"
  /\ \E i \in 1..Len(tasks) : Escaped(i)
  /\ pc' = "aborted"
  /\ \E e \in BaseExceptions : error' = e
  /\ UNCHANGED <<completed, allocation, is_testing, investment_amount, fetch,
                 account_balances, predicted_prices, all_symbol_info, assets, tasks,
                 remote, task_result, calls, rejections, results, cash_spent>>

\* mutant: the results are taken as the orders complete (as_completed)
GatherResults_AsCompleted(rs, done) == [k \in 1..Len(done) |-> rs[done[k]]]

\* asyncio.gather returns the results in the order of the awaitables given,
\* whatever the order of completion
GatherResults(rs, done) == rs

\* mutant: the wait ends at the first completed order (FIRST_COMPLETED)
OrdersFinished_First == Len(tasks) = 0 \/ \E i \in 1..Len(tasks) : OrderDone(i)

\* every awaitable of the gather has its result
OrdersFinished == \A i \in 1..Len(tasks) : OrderDone(i)

\* the gather of the orders returns: the results and the cash spent are printed
Report ==
  /\ pc = "ordering"
  /\ OrdersFinished
  /\ results' = GatherResults(task_result, completed)
  /\ cash_spent' = CashSpent(results')
  /\ pc' = "closing"
  /\ UNCHANGED <<completed, error, allocation, is_testing, investment_amount, fetch,
                 account_balances, predicted_prices, all_symbol_info, assets, tasks,
                 remote, task_result, calls, rejections>>

\* print_categories, print_assets, await client.close_connection() returns
CloseConnection ==
  /\ pc = "closing"
  /\ pc' = "done"
  /\ UNCHANGED <<completed, error, allocation, is_testing, investment_amount, fetch,
                 account_balances, predicted_prices, all_symbol_info, assets, tasks,
                 remote, task_result, calls, rejections, results, cash_spent>>

\* client.close_connection() raises: main ends with it, after the report
CloseConnectionFails ==
  /\ pc = "closing"
  /\ pc' = "aborted"
  /\ error' = "close_connection"
  /\ UNCHANGED <<completed, allocation, is_testing, investment_amount, fetch,
                 account_balances, predicted_prices, all_symbol_info, assets, tasks,
                 remote, task_result, calls, rejections, results, cash_spent>>

Next ==
  \/ GetTestIntentions
  \/ ConfigureClient
  \/ ConfigureClientFails
  \/ GetInvestmentAmount
  \/ GetInvestmentAmountFails
  \/ FetchBalances
  \/ FetchPrice
  \/ FetchInfo
  \/ GetPredictedPrices
  \/ GetAllSymbolInfo
  \/ \E kind \in FetchKinds : FetchFails(kind)
  \/ PreflightRaises
  \/ BuildPortfolio
  \/ BuildPortfolioFails
  \/ SubmitBuyOrders
  \/ \E i \in 1..Len(tasks) : OrderStart(i)
  \/ \E i \in 1..Len(tasks) : OrderReturns(i)
  \/ \E i \in 1..Len(tasks) : OrderRaises(i)
  \/ \E i \in 1..Len(tasks) : OrderEscapes(i)
  \/ SubmitBuyOrdersRaises
  \/ Report
  \/ CloseConnection
  \/ CloseConnectionFails

Spec == Init /\ [][Next]_vars

\* The run under its scheduling: the user answers each prompt, every remote
\* call returns or raises, and the event loop runs every ready task
SpecFair == Spec /\ WF_vars(Next)

(* ------------- submit_buy_orders on one candidate (SpecValidate) ------ *)
\* the trading rules a candidate is checked against
ValidateRules ==
  [tickSize : 1..MaxStep, stepSize : 1..MaxStep, minPrice : {0, 2}, maxPrice : {3, 100},
   minQty : {0, 2}, maxQty : {4, 100}, minNotional : {0, 6, 33}]

\* submit_buy_orders is entered with one asset, its price and its rule
InitValidate ==
  /\ pc = "submit"
  /\ error = ""
  /\ allocation = ALLOCATION
  /\ is_testing = TRUE
  /\ investment_amount = DEFAULT_INVESTMENT
  /\ fetch = AllDone
  /\ account_balances = <<>>
  /\ \E price \in 1..MaxPrice :
       predicted_prices = [s \in PriceSymbols |-> IF s = USD_SYMBOL THEN PRICE_SCALE ELSE price]
  /\ \E info \in ValidateRules : all_symbol_info = [s \in SymbolSet |-> info]
  /\ \E amount \in 0..MaxAmount :
       assets = <<[symbol |-> SYMBOLS[1], quantity |-> 0, initial_balance |-> 0,
                   amount_invested |-> amount]>>
  /\ tasks = <<>>
  /\ remote = <<>>
  /\ task_result = <<>>
  /\ calls = <<>>
  /\ rejections = <<>>
  /\ results = <<>>
  /\ cash_spent = 0
  /\ completed = <<>>

NextValidate == SubmitBuyOrders

SpecValidate == InitValidate /\ [][NextValidate]_vars

(* ------------- balancing and submission (SpecBalance) ----------------- *)
\* valid allocations: the declared one (in hundredths), and in tenths 0.6 of
\* ETH with 0.4 of BTC, and all in ADA
Allocations ==
  { ALLOCATION,
    [s \in SymbolSet |-> CASE s = "ETH" -> 6 [] s = "BTC" -> 4 [] OTHER -> 0],
    [s \in SymbolSet |-> IF s = "ADA" THEN 10 ELSE 0] }

\* a rule every candidate passes
OpenRule == [tickSize |-> 1, minPrice |-> 0, maxPrice |-> 100000,
             stepSize |-> 1, minQty |-> 0, maxQty |-> 100000, minNotional |-> 0]

\* the USD cash of a balancing: 0..MaxCash dollars, and 100 dollars with the
\* weights in tenths (in hundredths the balancer's products would pass 2^31)
CashDollars(alloc) == (0..MaxCash) \cup (IF alloc = ALLOCATION THEN {} ELSE {100})

\* main is past its pre-flight gather, with the three results in hand
InitBalance ==
  /\ pc = "fetching"
  /\ error = ""
  /\ allocation \in Allocations
  /\ is_testing = TRUE
  /\ investment_amount = DEFAULT_INVESTMENT
  /\ fetch = AllDone
  /\ \E c \in CashDollars(allocation), e \in 0..MaxHeld, b \in 0..MaxHeld, a \in 0..MaxHeld :
       account_balances = get_account_balances(investment_amount,
         <<[asset |-> USD_SYMBOL, free |-> c + CASH_RESERVE, locked |-> 0],
           [asset |-> "ETH", free |-> e, locked |-> 0],
           [asset |-> "BTC", free |-> b, locked |-> 0],
           [asset |-> "ADA", free |-> 0, locked |-> a]>>)
  /\ predicted_prices \in PriceAnswers
  /\ all_symbol_info = [s \in SymbolSet |-> OpenRule]
  /\ assets = <<>>
  /\ tasks = <<>>
  /\ remote = <<>>
  /\ task_result = <<>>
  /\ calls = <<>>
  /\ rejections = <<>>
  /\ results = <<>>
  /\ cash_spent = 0
  /\ completed = <<>>

NextBalance == BuildPortfolio \/ SubmitBuyOrders

SpecBalance == InitBalance /\ [][NextBalance]_vars

(* ------------- the allocation at import time (SpecVerify) ------------- *)
\* weights are held in units of 1e-7, so that the tolerance 1e-6 is 10 units
WEIGHT_UNIT == 10000000
WEIGHT_TOLERANCE == 10
Hundredth == WEIGHT_UNIT \div 100

\* mutant: a typo in the first weight (0.32 for 0.23)
DECLARED_ALLOCATION_Typo ==
  ("ETH" :> 32 * Hundredth) @@ ("BTC" :> 18 * Hundredth) @@ ("ADA" :> 14 * Hundredth)
  @@ ("SOL" :> 5 * Hundredth) @@ ("LINK" :> 13 * Hundredth) @@ ("MATIC" :> 13 * Hundredth)
  @@ ("UNI" :> 9 * Hundredth) @@ ("DOT" :> 5 * Hundredth) @@ ("BNB" :> 0)

\* ALLOCATION of async_main.py as its builder chain declares it, in units of
\* 1e-7: nine assets in three categories
DECLARED_ALLOCATION == [s \in SymbolSet |-> ALLOCATION[s] * Hundredth]

\* allocation of main.py, as declared: seven assets in three categories
main_allocation ==
  ("ETH" :> 25 * Hundredth) @@ ("BTC" :> 20 * Hundredth) @@ ("ADA" :> 15 * Hundredth)
  @@ ("UNI" :> 10 * Hundredth) @@ ("LINK" :> 15 * Hundredth) @@ ("MATIC" :> 15 * Hundredth)
  @@ ("BNB" :> 0)

\* Allocation.verify() (spec.md 4.1; not in src/): passes when no weight is
\* negative and the weights sum to 1.0 within the tolerance
verify(alloc) ==
  /\ \A s \in DOMAIN alloc : ~(alloc[s] < 0)
  /\ Max(WeightTotal(alloc) - WEIGHT_UNIT, WEIGHT_UNIT - WeightTotal(alloc))
       <= WEIGHT_TOLERANCE

\* weights a builder chain may be given: negative, zero, tiny, a half, a half
\* and a little, one
BuilderWeights == {0 - 50 * Hundredth, 0, 3, 50 * Hundredth, 50 * Hundredth + 5, WEIGHT_UNIT}
\* the assets of a builder chain other than the two declared
BuilderSymbols == VariedSymbols

\* the module is being imported: the builder chain has run, verify() has not
InitVerify ==
  /\ pc = "import"
  /\ error = ""
  /\ allocation \in [BuilderSymbols -> BuilderWeights] \cup {DECLARED_ALLOCATION, main_allocation}
  /\ is_testing = TRUE
  /\ investment_amount = DEFAULT_INVESTMENT
  /\ fetch = NoRequests
  /\ account_balances = <<>>
  /\ predicted_prices = [s \in PriceSymbols |-> 0]
  /\ all_symbol_info = [s \in SymbolSet |-> NoRule]
  /\ assets = <<>>
  /\ tasks = <<>>
  /\ remote = <<>>
  /\ task_result = <<>>
  /\ calls = <<>>
  /\ rejections = <<>>
  /\ results = <<>>
  /\ cash_spent = 0
  /\ completed = <<>>

\* .verify() returns the allocation: the import goes on and main is run
VerifyPasses ==
  /\ pc = "import"
  /\ verify(allocation)
  /\ pc' = "start"
  /\ UNCHANGED <<completed, error, allocation, is_testing, investment_amount, fetch,
                 account_balances, predicted_prices, all_symbol_info, assets, tasks,
                 remote, task_result, calls, rejections, results, cash_spent>>

\* .verify() raises: the import fails and main is never run
VerifyFails ==
  /\ pc = "import"
  /\ ~verify(allocation)
  /\ pc' = "aborted"
  /\ error' = "InvalidAllocationError"
  /\ UNCHANGED <<completed, allocation, is_testing, investment_amount, fetch,
                 account_balances, predicted_prices, all_symbol_info, assets, tasks,
                 remote, task_result, calls, rejections, results, cash_spent>>

NextVerify ==
  \/ VerifyPasses
  \/ VerifyFails
  \/ GetTestIntentions
  \/ ConfigureClient
  \/ ConfigureClientFails

SpecVerify == InitVerify /\ [][NextVerify]_vars

(* ============================== claims ================================ *)
Count(seq, x) == Cardinality({i \in 1..Len(seq) : seq[i] = x})
ResultKinds(rs) == [i \in 1..Len(rs) |-> rs[i].result]
\* main ended with an exception that left an order, or with one of close_connection
AbortedOrdering == pc = "aborted" /\ error \in BaseExceptions
AbortedClosing == pc = "aborted" /\ error = "close_connection"
\* the results and the cash spent were printed
Reported == pc \in {"closing", "done"} \/ AbortedClosing
\* the loop of submit_buy_orders over the assets has run
LoopDone == pc \in {"ordering", "closing", "done"} \/ AbortedOrdering \/ AbortedClosing
CallsFor(s) == {i \in 1..Len(calls) : calls[i].symbol = s}
TasksFor(s) == {i \in 1..Len(tasks) : tasks[i].symbol = s}
RejectionsFor(s) == {i \in 1..Len(rejections) : rejections[i].symbol = s}

\* the orders whose call raised, whatever the class of the exception
Raised == {i \in 1..Len(tasks) : remote[i] = "raised"}

\* C1: a batch of N queued orders of which M raise at the remote call yields a
\* result list of exactly N entries, exactly M of them FAILURE and N - M SUCCESS,
\* under every interleaving; each order's outcome follows its own call alone, and
\* no exception of a call leaves order() or ends the run.
C1_FailuresIsolated ==
  /\ \A i \in 1..Len(tasks) :
       task_result[i].result = (CASE remote[i] = "raised" -> "FAILURE"
                                  [] remote[i] = "returned" -> "SUCCESS"
                                  [] OTHER -> "NONE")
  /\ Raised # {} => ~AbortedOrdering
  /\ Reported =>
       /\ Len(results) = Len(tasks)
       /\ Count(ResultKinds(results), "FAILURE") = Cardinality(Raised)
       /\ Count(ResultKinds(results), "SUCCESS") = Len(tasks) - Cardinality(Raised)

\* an exception left order(): of three orders the second raised it, a sibling
\* had returned its SUCCESS dict, and the run ended with nothing reported
C1_ExceptionEscaped ==
  /\ AbortedOrdering
  /\ Len(tasks) = 3
  /\ Escaped(2)
  /\ task_result[1].result = "SUCCESS"
  /\ results = <<>> /\ cash_spent = 0

\* what holds of the calls that raise an Exception: each has its FAILURE dict,
\* the siblings theirs, and a report has one entry per order
CaughtFailuresIsolated ==
  /\ \A i \in 1..Len(tasks) :
       ~Escaped(i) =>
         task_result[i].result = (CASE remote[i] = "raised" -> "FAILURE"
                                    [] remote[i] = "returned" -> "SUCCESS"
                                    [] OTHER -> "NONE")
  /\ (\A i \in 1..Len(tasks) : ~Escaped(i)) => ~AbortedOrdering
  /\ Reported =>
       /\ Len(results) = Len(tasks)
       /\ Count(ResultKinds(results), "FAILURE") = Cardinality(Raised)
       /\ Count(ResultKinds(results), "SUCCESS") = Len(tasks) - Cardinality(Raised)

\* the bounds of the chain, in its order, as violated or not by a candidate;
\* the notional is the float the script computes as price * quantity
Violations(c, info) ==
  <<c.price < info.minPrice, c.price > info.maxPrice, c.quantity < info.minQty,
    c.quantity > info.maxQty, NotionalBelow(c.price, c.quantity, info.minNotional)>>
ReasonNames == <<"minPrice", "maxPrice", "minQty", "maxQty", "minNotional">>
FirstViolated(c, info) ==
  IF \E k \in 1..5 : Violations(c, info)[k]
  THEN CHOOSE k \in 1..5 : /\ Violations(c, info)[k]
                           /\ \A j \in 1..(k - 1) : ~Violations(c, info)[j]
  ELSE 0

\* C2: once the loop of submit_buy_orders is over, every candidate (an asset
\* with amount_invested > 0) that violates a bound has exactly one rejection,
\* whose reason is the first violated bound in the order minPrice, maxPrice,
\* minQty, maxQty, minNotional, and is not queued; a candidate that violates
\* none is queued and has no rejection.
C2_FirstViolatedBoundWins ==
  LoopDone =>
    \A i \in 1..Len(assets) :
      assets[i].amount_invested > 0 =>
        LET c == Candidate(assets[i], predicted_prices, all_symbol_info)
            k == FirstViolated(c, all_symbol_info[assets[i].symbol])
        IN IF k = 0
           THEN /\ RejectionsFor(assets[i].symbol) = {}
                /\ Cardinality(TasksFor(assets[i].symbol)) = 1
           ELSE /\ TasksFor(assets[i].symbol) = {}
                /\ Cardinality(RejectionsFor(assets[i].symbol)) = 1
                /\ \A r \in RejectionsFor(assets[i].symbol) :
                     rejections[r].reason = ReasonNames[k]

\* C2 witness: a candidate violating both minQty and minNotional was rejected for minQty
C2_Witness ==
  /\ pc = "ordering"
  /\ Len(rejections) = 1
  /\ rejections[1].reason = "minQty"
  /\ assets[1].amount_invested > 0
  /\ LET c == Candidate(assets[1], predicted_prices, all_symbol_info)
     IN /\ Violations(c, all_symbol_info[assets[1].symbol])[5]
        /\ c.price > 0

\* a pre-flight request has raised
FetchFailed == \E k \in FetchKinds : fetch[k].failed > 0

\* C3: once a pre-flight request has failed, under every interleaving of the
\* other answers, main never gets past its gather: no order is queued and no
\* order call (create_test_order, create_order) is ever made; and the run
\* aborts, with that failure: while main is still at its gather the gather is
\* about to raise, and main does end.
C3_FetchFailureAborts ==
  /\ [][FetchFailed => FetchFailed']_vars
  /\ [](FetchFailed => /\ pc \in {"fetching", "aborted"}
                        /\ tasks = <<>> /\ calls = <<>>
                        /\ (pc = "aborted" => error = "fetch")
                        /\ (pc = "fetching" => ENABLED PreflightRaises))
  /\ [](FetchFailed => <>(pc = "aborted"))

\* C3 witness: main ended after two price requests and a request for trading
\* rules had failed; the account, other prices and other rules had been
\* answered in between, and requests of both kinds were still unanswered
C3_Witness ==
  /\ pc = "aborted"
  /\ fetch["price"].failed = 2
  /\ fetch["price"].done > 0
  /\ fetch["price"].pending > 0
  /\ fetch["info"].failed = 1
  /\ fetch["info"].done > 0
  /\ fetch["info"].pending > 0
  /\ fetch["balances"].done = 1

\* C4: no order call is ever made for an asset that was rejected, and a
\* rejection does not stop the loop: every other asset with amount_invested > 0
\* is queued, and has its call made by the time the results are reported.
C4_RejectedNeverSubmitted ==
  /\ \A r \in 1..Len(rejections) :
       CallsFor(rejections[r].symbol) = {} /\ TasksFor(rejections[r].symbol) = {}
  /\ LoopDone =>
       \A i \in 1..Len(assets) :
         (assets[i].amount_invested > 0 /\ RejectionsFor(assets[i].symbol) = {}) =>
            /\ Cardinality(TasksFor(assets[i].symbol)) = 1
            /\ Reported => Cardinality(CallsFor(assets[i].symbol)) = 1

\* C4 witness: the first asset was rejected and a later one was submitted
C4_Witness ==
  /\ pc = "done"
  /\ Len(rejections) >= 1
  /\ rejections[1].symbol = SYMBOLS[1]
  /\ CallsFor(SYMBOLS[2]) # {}

\* C5: is_testing and investment_amount are not written once the pre-flight
\* gather has started, and every order call is made with the function the mode
\* selects: create_test_order in a test run, create_order in a live run.
C5_ModeFixedAndUniform ==
  /\ [][pc \notin {"start", "configure", "amount"} =>
          (is_testing' = is_testing /\ investment_amount' = investment_amount)]_vars
  /\ [](\A i \in 1..Len(calls) :
          calls[i].function = IF is_testing THEN "create_test_order" ELSE "create_order")

\* C5 witness: a live run made two or more order calls
C5_Witness ==
  /\ ~is_testing
  /\ Len(calls) >= 2
  /\ pc = "done"

\* C6: the cash spent that is reported is the sum of price * quantity over the
\* orders whose call returned, and over no order whose call raised.
RECURSIVE ReturnedNotional(_)
ReturnedNotional(n) ==
  IF n = 0 THEN 0
  ELSE ReturnedNotional(n - 1)
       + (IF remote[n] = "returned" THEN tasks[n].price * tasks[n].quantity ELSE 0)
C6_CashSpentIsSuccessNotional ==
  Reported => cash_spent = ReturnedNotional(Len(tasks))

\* C6 witness: of three orders the second failed and its notional is not in the total
C6_Witness ==
  /\ Reported
  /\ Len(results) = 3
  /\ results[2].result = "FAILURE"
  /\ results[2].notional > 0
  /\ cash_spent = results[1].notional + results[3].notional

(* the balancer's inputs, read from the results of the pre-flight gather *)
Balanced == assets # <<>>
HeldTotal(s) ==
  SumSeq([i \in 1..Len(account_balances) |->
            IF account_balances[i].asset = s THEN account_balances[i].total ELSE 0])
\* investableCash in cents: the USD total is in dollars
CashCents == CENTS_PER_DOLLAR * HeldTotal(USD_SYMBOL)
\* current value in cents: price (hundredths of a dollar per lot) times lots
ValueCents(s) == predicted_prices[s] * HeldTotal(s)
TotalCents == CashCents + SumOver([s \in SymbolSet |-> ValueCents(s)], SymbolSet)
WeightSum == SumOver(allocation, SymbolSet)
\* deficit = max(0, weight * totalValue - currentValue), times the weights' sum
DeficitCents(s) ==
  LET short == allocation[s] * TotalCents - WeightSum * ValueCents(s)
  IN IF short > 0 THEN short ELSE 0
DeficitSum == SumOver([s \in SymbolSet |-> DeficitCents(s)], SymbolSet)
InvestedSum == SumSeq([i \in 1..Len(assets) |-> assets[i].amount_invested])

\* C7: after balancing, the amounts to invest are all >= 0 and their sum is at
\* most the investable cash (which is never negative: a USD total <= 0 is left
\* out of the balances).
C7_WithinCashAndBuyOnly ==
  Balanced =>
    /\ CashCents >= 0
    /\ \A i \in 1..Len(assets) : assets[i].amount_invested >= 0
    /\ InvestedSum <= CashCents

\* C7 witness: cash was spread over two assets short of their targets while a
\* third was above its own, and whole cents left part of the cash unallotted
C7_Witness ==
  /\ Balanced
  /\ CashCents > 0
  /\ \E s \in SymbolSet : ValueCents(s) > 0 /\ DeficitCents(s) = 0
  /\ Cardinality({i \in 1..Len(assets) : assets[i].amount_invested > 0}) = 2
  /\ InvestedSum < CashCents

\* C8: when the sum of the deficits is positive, each amount to invest is
\* investableCash * deficit / sum(deficits) in whole cents, with deficit =
\* max(0, weight * totalValue - currentValue) and totalValue = the current
\* values + investableCash; weights 0.6/0.4 with nothing held and $100 of cash
\* give $60 and $40.
C8_ProportionalToDeficit ==
  (Balanced /\ DeficitSum > 0) =>
    /\ LET sum == DeficitSum
       IN \A i \in 1..Len(assets) :
            LET deficit == DeficitCents(assets[i].symbol)
            IN /\ assets[i].amount_invested * sum <= CashCents * deficit
               /\ CashCents * deficit < (assets[i].amount_invested + 1) * sum
    /\ ( /\ allocation = [s \in SymbolSet |->
                            CASE s = "ETH" -> 6 [] s = "BTC" -> 4 [] OTHER -> 0]
         /\ \A s \in SymbolSet : HeldTotal(s) = 0
         /\ HeldTotal(USD_SYMBOL) = 100 )
       => [i \in 1..Len(assets) |-> assets[i].amount_invested]
            = [i \in 1..Len(SYMBOLS) |-> CASE i = 1 -> 6000 [] i = 2 -> 4000 [] OTHER -> 0]

\* C8 witness: the 0.6/0.4 scenario with $100 has been balanced
C8_Witness ==
  /\ Balanced
  /\ allocation["ETH"] = 6 /\ allocation["BTC"] = 4
  /\ \A s \in SymbolSet : HeldTotal(s) = 0
  /\ HeldTotal(USD_SYMBOL) = 100
  /\ assets[1].amount_invested = 6000
  /\ assets[2].amount_invested = 4000

\* every asset's current value meets or exceeds its target value
AllAtTarget == \A s \in SymbolSet : WeightSum * ValueCents(s) >= allocation[s] * TotalCents

\* C9: if every asset's current value meets or exceeds its target value, every
\* amount to invest is 0, and submit_buy_orders skips every asset: nothing is
\* queued, nothing is rejected, no order call is made.
C9_AtTargetNoOrders ==
  (Balanced /\ AllAtTarget) =>
    /\ \A i \in 1..Len(assets) : assets[i].amount_invested = 0
    /\ tasks = <<>> /\ rejections = <<>> /\ calls = <<>>

\* C9 witness: a held asset carries the whole allocation, and the loop has run
C9_Witness ==
  /\ pc = "ordering"
  /\ AllAtTarget
  /\ \E s \in SymbolSet : ValueCents(s) > 0
  /\ tasks = <<>>

\* C10: for every asset with amount_invested > 0 the order built by
\* submit_buy_orders never exceeds the budget: the notional the script computes,
\* rounded price * rounded quantity, is at most dollar_investment =
\* amount_invested / 100, and the rounded price is at most the price; so it is
\* for every queued order.
C10_WithinBudget ==
  LoopDone =>
    \A i \in 1..Len(assets) :
      assets[i].amount_invested > 0 =>
        LET c == Candidate(assets[i], predicted_prices, all_symbol_info)
        IN /\ ~NotionalAbove(c.price, c.quantity,
                             DollarInvestment(assets[i].amount_invested))
           /\ c.price <= predicted_prices[assets[i].symbol]
           /\ \A t \in TasksFor(assets[i].symbol) :
                ~NotionalAbove(tasks[t].price, tasks[t].quantity,
                               DollarInvestment(assets[i].amount_invested))

\* an order was queued whose decimal cost is the whole amount and whose
\* notional, computed in floats, is above dollar_investment
C10_NotionalAboveBudget ==
  /\ pc = "ordering"
  /\ Len(tasks) = 1
  /\ tasks[1].price * tasks[1].quantity = DollarInvestment(assets[1].amount_invested)
  /\ NotionalAbove(tasks[1].price, tasks[1].quantity,
                   DollarInvestment(assets[1].amount_invested))

(* ------------------------------- C11 ---------------------------------- *)
\* the step grids and raw values of asset i's candidate
StepOf(i) == all_symbol_info[assets[i].symbol].stepSize
TickOf(i) == all_symbol_info[assets[i].symbol].tickSize
RawPrice(i) == predicted_prices[assets[i].symbol]

\* C11: the rounding of quantity and price is idempotent and truncating: for
\* every asset the loop rounded, rounding the rounded quantity (price) again on
\* the same grid gives it back, the rounded quantity is at most
\* dollar_investment / price, the rounded price is at most the price, and both
\* are non-negative multiples of their step.
C11_RoundingIdempotentTruncating ==
  LoopDone =>
    \A i \in 1..Len(assets) :
      ~Skipped(assets[i]) =>
        LET c == Candidate(assets[i], predicted_prices, all_symbol_info)
        IN /\ round_step_size(c.quantity, 1, StepOf(i)) = c.quantity
           /\ round_step_size(c.price, 1, TickOf(i)) = c.price
           /\ c.quantity * RawPrice(i) <= DollarInvestment(assets[i].amount_invested)
           /\ c.price <= RawPrice(i)
           /\ c.quantity >= 0 /\ c.quantity % StepOf(i) = 0
           /\ c.price >= 0 /\ c.price % TickOf(i) = 0
           /\ \A t \in TasksFor(assets[i].symbol) :
                /\ round_step_size(tasks[t].quantity, 1, StepOf(i)) = tasks[t].quantity
                /\ round_step_size(tasks[t].price, 1, TickOf(i)) = tasks[t].price

\* C11 witness: an order was queued whose quantity and price both lie strictly
\* below the raw values, on grids coarser than one unit
C11_Witness ==
  /\ pc = "ordering"
  /\ Len(tasks) = 1
  /\ StepOf(1) > 1 /\ TickOf(1) > 1
  /\ tasks[1].quantity > 0
  /\ tasks[1].quantity * RawPrice(1) < DollarInvestment(assets[1].amount_invested)
  /\ (tasks[1].quantity + 1) * RawPrice(1) <= DollarInvestment(assets[1].amount_invested)
  /\ tasks[1].price > 0 /\ tasks[1].price < RawPrice(1)

(* ------------------------------- C12 ---------------------------------- *)
ResultsFor(s) == {i \in 1..Len(results) : results[i].symbol = s}
Funded == {i \in 1..Len(assets) : assets[i].amount_invested > 0}

InFlight == {i \in 1..Len(tasks) : remote[i] \in {"created", "pending"}}
Begun == {i \in 1..Len(tasks) : remote[i] # "created"}

\* C13: every valid order of the batch is queued before any order runs or is
\* waited for; the result list and the cash-spent total are produced only in a
\* step taken when every queued order has returned or raised, and they cover
\* every queued order; while an order is in flight nothing has been reported.
C13_ReportAfterAllComplete ==
  /\ [][(results' # results \/ cash_spent' # cash_spent \/ (~Reported /\ Reported'))
          => (pc = "ordering" /\ InFlight = {} /\ InFlight' = {})]_vars
  /\ [](/\ (Begun # {} \/ calls # <<>>) =>
             (LoopDone /\ tasks = QueuedOrders(assets, predicted_prices, all_symbol_info))
        /\ InFlight # {} => (~Reported /\ results = <<>> /\ cash_spent = 0)
        /\ Reported => /\ InFlight = {}
                        /\ Len(results) = Len(tasks)
                        /\ \A i \in 1..Len(tasks) :
                             results[i].result \in {"SUCCESS", "FAILURE"})

\* C13 witness: a batch of three orders was reported once all three had
\* completed, one of them by raising
C13_Witness ==
  /\ Reported
  /\ Len(tasks) = 3
  /\ Len(results) = 3
  /\ cash_spent > 0
  /\ Count(ResultKinds(results), "FAILURE") = 1

(* ------------------------------- C14 ---------------------------------- *)
Terminated == pc \in {"done", "aborted"}

\* the run died of an uncaught exception before submit_buy_orders: no order
\* was queued, no call made, nothing reported
FatalPreflight ==
  /\ pc = "aborted" /\ error # "" /\ ~AbortedOrdering /\ ~AbortedClosing
  /\ tasks = <<>> /\ calls = <<>> /\ results = <<>> /\ cash_spent = 0

\* the run ended after its report: one outcome per queued order and the cash
\* spent on the successes were printed, whether close_connection then
\* returned or raised
CompletedReport ==
  /\ (pc = "done" /\ error = "") \/ AbortedClosing
  /\ Len(results) = Len(tasks)
  /\ \A i \in 1..Len(tasks) :
       /\ results[i].symbol = tasks[i].symbol
       /\ results[i].result \in {"SUCCESS", "FAILURE"}
  /\ cash_spent = SumSeq([i \in 1..Len(results) |->
                     IF results[i].result = "SUCCESS" THEN results[i].notional ELSE 0])

\* C14: when the user answers and every remote call returns or raises, every
\* run terminates, and it terminates in exactly one of two ways: a fatal
\* pre-flight error with no order attempted, or a completed report over the
\* batch with the cash spent on successes.
C14_TerminatesTwoWays ==
  /\ <>Terminated
  /\ [](Terminated => (FatalPreflight \/ CompletedReport))
  /\ [](~(FatalPreflight /\ CompletedReport))

\* the run ended in a third way: order calls were made, one of them returned,
\* and main died of an exception that left order(), with nothing reported
C14_OrdersAbandoned ==
  /\ AbortedOrdering
  /\ calls # <<>>
  /\ \E i \in 1..Len(tasks) : remote[i] = "returned"
  /\ results = <<>> /\ cash_spent = 0
  /\ ~FatalPreflight /\ ~CompletedReport

\* what holds of every run: it terminates, in one of these three ways
TerminatesThreeWays ==
  /\ <>Terminated
  /\ [](Terminated => (FatalPreflight \/ CompletedReport \/ AbortedOrdering))
  /\ [](~(FatalPreflight /\ CompletedReport))
  /\ [](AbortedOrdering => (calls # <<>> /\ results = <<>> /\ ~FatalPreflight))

(* ------------------------------- C15 ---------------------------------- *)
BalancesFetched == fetch["balances"].done = Requests("balances")
AllFetched == fetch = AllDone

\* the usable cash was not positive: get_account_balances left USD out
NoCash ==
  /\ BalancesFetched
  /\ \A i \in 1..Len(account_balances) : account_balances[i].asset # USD_SYMBOL

\* with no usable cash every amount is 0 and no order is queued or sent
NoCashNoOrders ==
  NoCash =>
    /\ \A i \in 1..Len(assets) : assets[i].amount_invested = 0
    /\ tasks = <<>> /\ calls = <<>> /\ rejections = <<>>
    /\ results = <<>> /\ cash_spent = 0

\* C15: when the usable cash min(investment_amount, usd_balance - 10) is not
\* positive, every amount to invest is 0, no order is submitted, and the run,
\* its pre-flight requests having all returned, completes without raising.
C15_NoCashCompletesQuietly ==
  /\ NoCashNoOrders
  /\ (NoCash /\ AllFetched) => pc # "aborted"

\* the run raised with no usable cash although every request had returned
C15_NoCashRaised ==
  /\ NoCash /\ AllFetched
  /\ pc = "aborted" /\ error = "KeyError"

(* ------------------------------- C16 ---------------------------------- *)
\* the invariant of an allocation: no negative weight, sum 1.0 within 1e-6
ValidWeights(alloc) ==
  /\ \A s \in DOMAIN alloc : alloc[s] >= 0
  /\ SumOver(alloc, DOMAIN alloc) >= WEIGHT_UNIT - WEIGHT_TOLERANCE
  /\ SumOver(alloc, DOMAIN alloc) <= WEIGHT_UNIT + WEIGHT_TOLERANCE
Imported == pc # "import"

\* C16: every allocation that passed verify() has non-negative weights that
\* sum to 1.0 within 1e-6; every allocation violating this failed verify() and
\* the run ended there, before any fetch or order; the allocations declared in
\* async_main.py and main.py satisfy the invariant.
C16_VerifiedAllocationsValid ==
  /\ (Imported /\ error # "InvalidAllocationError") => ValidWeights(allocation)
  /\ (Imported /\ ~ValidWeights(allocation)) =>
       /\ pc = "aborted" /\ error = "InvalidAllocationError"
       /\ fetch = NoRequests
       /\ tasks = <<>> /\ calls = <<>>
  /\ ValidWeights(DECLARED_ALLOCATION)
  /\ ValidWeights(main_allocation)

\* C16 witness: an allocation whose weights miss 1.0 by less than the
\* tolerance, without being exact, passed verify() and the run went on
C16_Witness ==
  /\ pc = "configure"
  /\ allocation \notin {DECLARED_ALLOCATION, main_allocation}
  /\ SumOver(allocation, DOMAIN allocation) # WEIGHT_UNIT
  /\ ValidWeights(allocation)

(* ------------------------------- C17 ---------------------------------- *)
\* the entries of the returned balances for an asset, and the raw total of the
\* i-th balance of an answer of the exchange
BalancesFor(a) == {i \in 1..Len(account_balances) : account_balances[i].asset = a}
RawTotal(answer, i) == answer[i].free + answer[i].locked
\* what the claim says the total of the i-th balance becomes
ClaimedTotal(answer, i) ==
  IF answer[i].asset = USD_SYMBOL
  THEN (IF investment_amount < RawTotal(answer, i) - 10
        THEN investment_amount ELSE RawTotal(answer, i) - 10)
  ELSE RawTotal(answer, i)
\* the answers of the exchange that the returned balances can come from
Amounts == {DEFAULT_INVESTMENT} \cup {ParseFloat(u) : u \in {v \in UserInputs : ~ParseRaises(v)}}
Returned == [inv \in Amounts |-> [answer \in AccountAnswers |->
                                   get_account_balances(inv, answer)]]
Consistent(answer) == account_balances = Returned[investment_amount][answer]

\* C17: for every answer of the exchange, the USD total becomes the smaller of
\* investment_amount and b - 10 (so never more than b - 10), every other total
\* stays free + locked, an asset is returned exactly when that total is > 0,
\* and the cash the balancer hands out never exceeds b - 10 dollars.
C17_CashCappedAndEmptyOmitted ==
  BalancesFetched =>
   LET invested == SumSeq([k \in 1..Len(assets) |-> assets[k].amount_invested]) IN
    /\ \E answer \in AccountAnswers : Consistent(answer)
    /\ \A answer \in AccountAnswers :
         Consistent(answer) =>
           \A i \in 1..Len(answer) :
             /\ ClaimedTotal(answer, i) <= 0 => BalancesFor(answer[i].asset) = {}
             /\ ClaimedTotal(answer, i) > 0 =>
                  /\ Cardinality(BalancesFor(answer[i].asset)) = 1
                  /\ \A k \in BalancesFor(answer[i].asset) :
                       account_balances[k].total = ClaimedTotal(answer, i)
             /\ answer[i].asset = USD_SYMBOL =>
                  /\ \A k \in BalancesFor(USD_SYMBOL) :
                       /\ account_balances[k].total <= RawTotal(answer, i) - 10
                       /\ account_balances[k].total <= investment_amount
                  /\ invested <= Max(0, RawTotal(answer, i) - 10) * CENTS_PER_DOLLAR

\* C17 witness: the balances were returned with USD capped by b - 10 (15 of a
\* balance of 25, below the 20 asked for), ETH kept and BTC left out
C17_Witness ==
  /\ BalancesFetched
  /\ investment_amount = 20
  /\ \E k \in BalancesFor(USD_SYMBOL) : account_balances[k].total = 15
  /\ BalancesFor("ETH") # {}
  /\ BalancesFor("BTC") = {}

(* ------------------------------- C18 ---------------------------------- *)
Asked == pc # "start"
\* the pairs of answers that leave is_testing as it is
AnswersGiving(testing) ==
  {a \in Answers \X Answers : get_test_intentions_from_user(a[1], a[2]) = testing}
LiveCalls == {i \in 1..Len(calls) : calls[i].function = "create_order"}

\* C18: live orders need two confirmations: once the prompts are answered,
\* is_testing is FALSE exactly for the pairs whose first answer is not 'y' and
\* whose second answer is 'y'; after any other pair the run is in test mode
\* and create_order is never called, and a live run calls nothing else.
C18_LiveNeedsTwoConfirmations ==
  Asked =>
    /\ AnswersGiving(is_testing) # {}
    /\ \A a \in AnswersGiving(is_testing) :
         (is_testing = FALSE) <=> (a[1] # "y" /\ a[2] = "y")
    /\ is_testing => LiveCalls = {}
    /\ ~is_testing => LiveCalls = 1..Len(calls)

\* C18 witness: after a first answer other than 'y' and a second answer 'y'
\* the run is live and has sent an order with create_order
C18_Witness ==
  /\ ~is_testing
  /\ AnswersGiving(is_testing) = {a \in Answers \X Answers : a[1] # "y" /\ a[2] = "y"}
  /\ LiveCalls # {}

(* ------------------------------- C19 ---------------------------------- *)
\* main is past get_investment_amount_from_user
AmountChosen == pc \notin {"start", "configure", "amount", "aborted"}
\* what the claim allows investment_amount to be after the prompt: the default
\* (Return) or the number typed
ClaimedAmounts ==
  {DEFAULT_INVESTMENT} \cup {ParseFloat(u) : u \in UserInputs \ {<<>>}}

\* C19: at the investment prompt Return keeps the default investment_amount
\* and the run continues (it never dies of the conversion of the input); a
\* number typed replaces investment_amount.
C19_ReturnKeepsDefault ==
  /\ error # "ValueError"
  /\ AmountChosen => investment_amount \in ClaimedAmounts

\* Return was pressed at the prompt: the run died of ValueError with the
\* default still in place and nothing fetched
C19_ReturnRaised ==
  /\ pc = "aborted" /\ error = "ValueError"
  /\ investment_amount = DEFAULT_INVESTMENT
  /\ fetch = NoRequests

(* ------------------------------- C20 ---------------------------------- *)
\* result r describes queued order t: same symbol, quantity and price
Describes(r, t) ==
  /\ r.symbol = t.symbol /\ r.quantity = t.quantity /\ r.price = t.price
\* the orders completed in another order than they were queued in
OutOfOrder == \E k \in 1..(Len(completed) - 1) : completed[k] > completed[k + 1]
\* the position in assets of the asset a queued order was built from
AssetIndex(t) == CHOOSE i \in 1..Len(assets) : assets[i].symbol = tasks[t].symbol

\* C20: the result list follows the queue, not the completions: under every
\* interleaving the i-th result describes the i-th queued order, and the queue
\* follows the order of the assets; before the report, each finished order's
\* dict describes the order in its own queue position.
C20_ResultsInQueueOrder ==
  /\ LoopDone =>
       /\ \A t \in 1..Len(tasks) : \E i \in 1..Len(assets) : assets[i].symbol = tasks[t].symbol
       /\ \A t, u \in 1..Len(tasks) : t < u => AssetIndex(t) < AssetIndex(u)
       /\ \A t \in 1..Len(tasks) : OrderDone(t) => Describes(task_result[t], tasks[t])
  /\ Reported =>
       /\ Len(results) = Len(tasks)
       /\ \A i \in 1..Len(tasks) : Describes(results[i], tasks[i])

\* C20 witness: three orders were reported after completing in an order other
\* than the queue's: the first queued completed last
C20_Witness ==
  /\ Reported
  /\ Len(tasks) = 3
  /\ Len(completed) = 3
  /\ completed[3] = 1
  /\ OutOfOrder
  /\ \A i \in 1..3 : Describes(results[i], tasks[i])

(* ------------------------------- C21 ---------------------------------- *)
\* the balances whose symbol has no predicted price
Unpriced == {i \in 1..Len(account_balances) :
               account_balances[i].asset \notin DOMAIN predicted_prices}
\* main is past get_portfolio_assets and the balancing
PortfolioBuilt == pc = "submit" \/ LoopDone
\* the positions the balancer returned for a symbol
PositionsFor(a) == {k \in 1..Len(assets) : assets[k].symbol = a}

\* C21: for every set of balances get_account_balances returns, a holding of
\* a symbol outside the allocation included, every held symbol has a price,
\* get_portfolio_assets builds one position per balance worth
\* price * total * 100 cents, and the run, its pre-flight requests having all
\* returned, proceeds to the balancing instead of raising.
C21_EveryHeldSymbolPriced ==
  /\ BalancesFetched => Unpriced = {}
  /\ (BalancesFetched /\ AllFetched) => pc # "aborted"
  /\ PortfolioBuilt =>
       \A i \in 1..Len(account_balances) :
         account_balances[i].asset \in SymbolSet =>
           \A k \in PositionsFor(account_balances[i].asset) :
             assets[k].initial_balance * PRICE_SCALE =
               predicted_prices[account_balances[i].asset]
                 * account_balances[i].total * CENTS_PER_DOLLAR

\* a coin outside the allocation was held: every request returned, the coin
\* had no price, and the run died of KeyError before the balancing
C21_HeldSymbolUnpriced ==
  /\ AllFetched
  /\ \E i \in Unpriced : account_balances[i].asset = "DOGE"
                          /\ account_balances[i].total > 0
  /\ pc = "aborted" /\ error = "KeyError"
  /\ assets = <<>> /\ tasks = <<>> /\ calls = <<>>

====
